---- MODULE Spec2Model ----
(***************************************************************************)
(* Model of extract_tag and parse_price (src/main.py:88-171): the request   *)
(* that joins the texts an OCR service found in an image and the heuristic *)
(* that turns the joined text into {raw_text, name, mrp, sell_price}.      *)
(*                                                                         *)
(* A text is a sequence of characters, each character a one-element        *)
(* string.  The rupee glyph U+20B9 is the character Rupee.  A price is the *)
(* number of hundredths it denotes: every token the patterns capture has   *)
(* at most 6 integer and 2 fractional digits, so float() maps distinct     *)
(* token values to distinct doubles and keeps their order, and the         *)
(* comparison, max, min, set() and truth value of the floats are those of  *)
(* the hundredths.  An Optional value is <<>> (None) or <<v>>.             *)
(*                                                                         *)
(* A character is written as itself, as one of the escapes \t \n \f \r, or *)
(* as "<U+XXXX>" with its code point.  The alphabet is ASCII, the white    *)
(* space and line boundaries of Unicode, the rupee glyph and the letters   *)
(* of OtherLower and OtherFold; on it the character classes of the code    *)
(* ([0-9], [a-zA-Z], \s, str.strip, str.splitlines, str.lower,             *)
(* re.IGNORECASE) are modelled as Python defines them.                     *)
(***************************************************************************)
EXTENDS Integers, Sequences, FiniteSets

VARIABLES vocab, pieces, payload, pc, status_code, text, result, again

vars == <<vocab, pieces, payload, pc, status_code, text, result, again>>

\* vocab: the vocabulary the OCR texts are drawn from; pieces: the number of
\* steps that built payload; payload: the ParsedText of each entry of
\* ParsedResults in the answer of the OCR service; pc: "request", "reading"
\* (suspended in await file.read()), "waiting" (in requests.post), "parsed",
\* "failed" or "reparsed"; status_code: the HTTP status of the response, 0
\* before there is one; text: the joined text; result: parse_price(text);
\* again: parse_price(result.raw_text).

\* Number of steps (a fragment of text, or a new entry) the answer of the
\* OCR service is assembled in.
MaxPieces == 3

(***************************************************************************)
(* Characters                                                              *)
(***************************************************************************)
Rupee == "<U+20B9>"

UpperCase == <<"A","B","C","D","E","F","G","H","I","J","K","L","M",
               "N","O","P","Q","R","S","T","U","V","W","X","Y","Z">>

LowerCase == <<"a","b","c","d","e","f","g","h","i","j","k","l","m",
               "n","o","p","q","r","s","t","u","v","w","x","y","z">>

Digits == <<"0","1","2","3","4","5","6","7","8","9">>

\* str.strip() and the pattern \s of a str pattern: the characters c with
\* c.isspace().
WhiteSpace ==
    {"\t", "\n", "<U+000B>", "\f", "\r",
     "<U+001C>", "<U+001D>", "<U+001E>", "<U+001F>", " ",
     "<U+0085>", "<U+00A0>", "<U+1680>",
     "<U+2000>", "<U+2001>", "<U+2002>", "<U+2003>", "<U+2004>", "<U+2005>",
     "<U+2006>", "<U+2007>", "<U+2008>", "<U+2009>", "<U+200A>",
     "<U+2028>", "<U+2029>", "<U+202F>", "<U+205F>", "<U+3000>"}

\* str.splitlines(): the line boundaries ("\r\n" counts as one, see
\* SplitLines).
LineBreaks ==
    {"\n", "<U+000B>", "\f", "\r", "<U+001C>", "<U+001D>", "<U+001E>",
     "<U+0085>", "<U+2028>", "<U+2029>"}

DigitValue == [c \in {Digits[i] : i \in 1..10} |-> (CHOOSE i \in 1..10 : Digits[i] = c) - 1]

\* [0-9]
IsDigit(c) == c \in DOMAIN DigitValue

DigitVal(c) == DigitValue[c]

Letters == {UpperCase[i] : i \in 1..26} \cup {LowerCase[i] : i \in 1..26}

\* [a-zA-Z]
IsAlpha(c) == c \in Letters

LowerOf == [c \in {UpperCase[i] : i \in 1..26} |->
               LowerCase[CHOOSE i \in 1..26 : UpperCase[i] = c]]

\* The capitals of the alphabet outside ASCII and what str.lower() makes of
\* them: E acute, I with dot above (two characters: i and the combining
\* dot), the Kelvin sign.
OtherLower ==
    [c \in {"<U+00C9>", "<U+0130>", "<U+212A>"} |->
        IF c = "<U+00C9>" THEN <<"<U+00E9>">>
        ELSE IF c = "<U+0130>" THEN <<"i", "<U+0307>">>
        ELSE <<"k">>]

\* str.lower() of one character: a string of one or two characters.
LowerChar(c) ==
    IF c \in DOMAIN LowerOf THEN <<LowerOf[c]>>
    ELSE IF c \in DOMAIN OtherLower THEN OtherLower[c]
    ELSE <<c>>

\* str.lower()
RECURSIVE Lower(_)
Lower(s) ==
    IF Len(s) = 0 THEN <<>>
    ELSE Lower(SubSeq(s, 1, Len(s) - 1)) \o LowerChar(s[Len(s)])

\* The characters outside ASCII that re.IGNORECASE identifies with another
\* one: E acute with e acute, I with dot above and dotless i with i, long s
\* with s, the Kelvin sign with k.
OtherFold ==
    [c \in {"<U+00C9>", "<U+0130>", "<U+0131>", "<U+017F>", "<U+212A>"} |->
        IF c = "<U+00C9>" THEN "<U+00E9>"
        ELSE IF c = "<U+017F>" THEN "s"
        ELSE IF c = "<U+212A>" THEN "k"
        ELSE "i"]

\* Two characters match under re.IGNORECASE when Fold maps them to the same
\* character.
Fold(c) ==
    IF c \in DOMAIN LowerOf THEN LowerOf[c]
    ELSE IF c \in DOMAIN OtherFold THEN OtherFold[c]
    ELSE c

None == <<>>

Some(v) == <<v>>

(***************************************************************************)
(* Substrings                                                              *)
(***************************************************************************)
\* s[i..] starts with k
StartsAt(s, i, k) ==
    /\ i >= 1
    /\ i + Len(k) - 1 <= Len(s)
    /\ \A j \in 1..Len(k) : s[i + j - 1] = k[j]

\* k in s
Contains(s, k) == \E i \in 1..(Len(s) + 1) : StartsAt(s, i, k)

\* Mutant of Strip: str.lstrip(), the trailing white space is kept.
StripLeftOnly(s) ==
    LET keep == {i \in 1..Len(s) : s[i] \notin WhiteSpace}
    IN  IF keep = {} THEN <<>>
        ELSE LET a == CHOOSE i \in keep : \A j \in keep : i <= j
             IN  SubSeq(s, a, Len(s))

\* Mutant of Strip: at most one white space character is removed at each end.
StripOneChar(s) ==
    LET a == IF Len(s) >= 1 /\ s[1] \in WhiteSpace THEN 2 ELSE 1
        b == IF Len(s) >= 2 /\ s[Len(s)] \in WhiteSpace THEN Len(s) - 1 ELSE Len(s)
    IN  SubSeq(s, a, b)

\* str.strip(): s without its leading and trailing white space
Strip(s) ==
    LET keep == {i \in 1..Len(s) : s[i] \notin WhiteSpace}
    IN  IF keep = {} THEN <<>>
        ELSE LET a == CHOOSE i \in keep : \A j \in keep : i <= j
                 b == CHOOSE i \in keep : \A j \in keep : i >= j
             IN  SubSeq(s, a, b)

(***************************************************************************)
(* Numeric tokens: [0-9]{2,6}(?:\.[0-9]{1,2})?                             *)
(***************************************************************************)
DigitAt(s, i) == i >= 1 /\ i <= Len(s) /\ IsDigit(s[i])

\* Length of the greedy match of [0-9]{0,most} at i.
RECURSIVE DigitRun(_, _, _)
DigitRun(s, i, most) ==
    IF most > 0 /\ DigitAt(s, i) THEN 1 + DigitRun(s, i + 1, most - 1) ELSE 0

\* Length of the greedy match of (?:\.[0-9]{1,2})? at j.
FractionLen(s, j) ==
    IF j <= Len(s) /\ s[j] = "." /\ DigitAt(s, j + 1)
    THEN 1 + DigitRun(s, j + 1, 2)
    ELSE 0

\* Mutant of TokenLen: the token needs 3 digits, [0-9]{3,6}.
TokenLenThreeDigits(s, i, n) == IF n < 3 THEN 0 ELSE n + FractionLen(s, i + n)

\* Length of the token at i whose greedy digit run has n digits, 0 when the
\* run is too short for [0-9]{2,6}.
TokenLen(s, i, n) == IF n < 2 THEN 0 ELSE n + FractionLen(s, i + n)

\* Length of the match of the token pattern at i, 0 when it does not match.
NumberLen(s, i) == TokenLen(s, i, DigitRun(s, i, 6))

\* The value of a sequence of decimal digits.
RECURSIVE DecVal(_)
DecVal(d) ==
    IF Len(d) = 0 THEN 0
    ELSE 10 * DecVal(SubSeq(d, 1, Len(d) - 1)) + DigitVal(d[Len(d)])

\* Index of the decimal point of a token, Len(tok) + 1 when it has none.
RECURSIVE PointOf(_, _)
PointOf(tok, i) ==
    IF i > Len(tok) \/ tok[i] = "." THEN i ELSE PointOf(tok, i + 1)

\* Hundredths denoted by the fraction digits.
Hundredths(frac) == IF Len(frac) = 1 THEN 10 * DecVal(frac) ELSE DecVal(frac)

FloatAt(tok, dot) ==
    100 * DecVal(SubSeq(tok, 1, dot - 1)) + Hundredths(SubSeq(tok, dot + 1, Len(tok)))

\* float(tok) of a captured token, in hundredths.
Float(tok) == FloatAt(tok, PointOf(tok, 1))

(***************************************************************************)
(* number_after: keyword, \s*[:\-]?\s*, optional glyph, \s*, token         *)
(***************************************************************************)
\* Position after the greedy match of \s* at i.
RECURSIVE SkipWs(_, _)
SkipWs(s, i) ==
    IF i <= Len(s) /\ s[i] \in WhiteSpace THEN SkipWs(s, i + 1) ELSE i

\* Position after the greedy match of c? at i.
SkipOpt(s, i, cs) == IF i <= Len(s) /\ s[i] \in cs THEN i + 1 ELSE i

\* Position after \s*[:\-]?\s*(glyph)?\s* at i.  Every part is optional and
\* none of them can match a digit, so the greedy match is the only one the
\* token can follow.
AfterSeparators(s, i) ==
    SkipWs(s, SkipOpt(s, SkipWs(s, SkipOpt(s, SkipWs(s, i), {":", "-"})), {Rupee}))

\* re.IGNORECASE comparison of the keyword k with s at i.
KeywordAt(s, i, k) ==
    /\ i + Len(k) - 1 <= Len(s)
    /\ \A j \in 1..Len(k) : Fold(s[i + j - 1]) = Fold(k[j])

\* p when a token starts at p, else 0.
TokenStart(s, p) == IF NumberLen(s, p) > 0 THEN p ELSE 0

\* Start of the token the pattern captures when keyword k is matched at i,
\* 0 when the pattern does not match there with k.
CaptureAt(s, i, k) ==
    IF KeywordAt(s, i, k) THEN TokenStart(s, AfterSeparators(s, i + Len(k))) ELSE 0

\* The alternatives of the keyword group with which the pattern matches at i.
MatchingAlternatives(s, i, keyword_variants) ==
    {v \in 1..Len(keyword_variants) : CaptureAt(s, i, keyword_variants[v]) > 0}

\* re.search from i on: the leftmost position the pattern matches at and,
\* there, the first alternative that matches; the start of m.group(1), 0
\* when there is no match.
RECURSIVE SearchFrom(_, _, _)
RECURSIVE SearchAt(_, _, _, _)
SearchFrom(s, i, keyword_variants) ==
    IF i > Len(s) THEN 0
    ELSE SearchAt(s, i, keyword_variants, MatchingAlternatives(s, i, keyword_variants))

SearchAt(s, i, keyword_variants, alts) ==
    IF alts = {} THEN SearchFrom(s, i + 1, keyword_variants)
    ELSE CaptureAt(s, i, keyword_variants[CHOOSE a \in alts : \A b \in alts : a <= b])

SearchCapture(s, keyword_variants) == SearchFrom(s, 1, keyword_variants)

Token(s, p) == SubSeq(s, p, p + NumberLen(s, p) - 1)

\* float(m.group(1)) if m else None
GroupValue(lower_text, p) == IF p > 0 THEN Some(Float(Token(lower_text, p))) ELSE None

number_after(lower_text, keyword_variants) ==
    GroupValue(lower_text, SearchCapture(lower_text, keyword_variants))

MrpKeywords == << <<"m","r","p">>,
                  <<"m",".","r",".","p">>,
                  <<"m","a","x"," ","r","e","t","a","i","l">>,
                  <<"p","r","i","c","e"," ","m","r","p">> >>

\* Mutant of SellKeywords: the MRP list pasted into the sell search.
SellKeywordsPasted == MrpKeywords

SellKeywords == << <<"s","e","l","l">>,
                   <<"s","a","l","e">>,
                   <<"s","p">>,
                   <<"s","e","l","l","i","n","g">>,
                   <<"o","f","f","e","r">>,
                   <<"n","o","w">>,
                   <<"o","u","r"," ","p","r","i","c","e">> >>

\* x or None, for an Optional[float] x: 0.0 is false.
OrNone(x) == IF x # None /\ x[1] # 0 THEN x ELSE None

(***************************************************************************)
(* Fallback pool: re.findall of (?:rs\.?|inr|glyph)?\s*(token)             *)
(***************************************************************************)
\* Positions after the optional currency prefix at i, in the order the
\* regex engine tries them.
PrefixEnds(s, i) ==
    (IF StartsAt(s, i, <<"r","s",".">>) THEN <<i + 3>> ELSE <<>>)
    \o (IF StartsAt(s, i, <<"r","s">>) THEN <<i + 2>> ELSE <<>>)
    \o (IF StartsAt(s, i, <<"i","n","r">>) THEN <<i + 3>> ELSE <<>>)
    \o (IF StartsAt(s, i, <<Rupee>>) THEN <<i + 1>> ELSE <<>>)
    \o <<i>>

\* Start of the token of the match that begins at i, 0 when none does: the
\* first of the alternatives ends[e..] after which \s* and a token follow.
RECURSIVE TryPrefixes(_, _, _)
RECURSIVE TryPrefix(_, _, _, _)
TryPrefixes(s, ends, e) ==
    IF e > Len(ends) THEN 0
    ELSE TryPrefix(s, ends, e, TokenStart(s, SkipWs(s, ends[e])))

TryPrefix(s, ends, e, p) == IF p > 0 THEN p ELSE TryPrefixes(s, ends, e + 1)

PoolCaptureAt(s, i) == TryPrefixes(s, PrefixEnds(s, i), 1)

\* The non-overlapping matches from i on, left to right: the captured tokens.
RECURSIVE FindAll(_, _)
RECURSIVE FindNext(_, _, _)
FindAll(s, i) ==
    IF i > Len(s) THEN <<>> ELSE FindNext(s, i, PoolCaptureAt(s, i))

FindNext(s, i, p) ==
    IF p > 0
    THEN <<Token(s, p)>> \o FindAll(s, p + NumberLen(s, p))
    ELSE FindAll(s, i + 1)

Range(q) == {q[i] : i \in 1..Len(q)}

\* sorted(S)
RECURSIVE Sorted(_)
Sorted(S) ==
    IF S = {} THEN <<>>
    ELSE LET lo == CHOOSE x \in S : \A y \in S : x <= y
         IN  <<lo>> \o Sorted(S \ {lo})

Max(q) == CHOOSE x \in Range(q) : \A y \in Range(q) : y <= x

Min(q) == CHOOSE x \in Range(q) : \A y \in Range(q) : x <= y

\* set(float(n) for n in found)
Values(found) == {Float(found[i]) : i \in 1..Len(found)}

\* candidates = sorted(set(nums))
Candidates(lower_text) == Sorted(Values(FindAll(lower_text, 1)))

\* bool(x) of an Optional[float]
Truthy(x) == x # None /\ x[1] # 0

\* Mutant of FallbackMrp: the lowest candidate is taken.
FallbackMrpLowest(mrp, candidates) ==
    IF mrp = None /\ Len(candidates) > 0 THEN Some(Min(candidates)) ELSE mrp

FallbackMrp(mrp, candidates) ==
    IF mrp = None /\ Len(candidates) > 0 THEN Some(Max(candidates)) ELSE mrp

\* Mutant of FallbackSell: the last candidate is taken whatever mrp is.
FallbackSellLast(sell, mrp, candidates) ==
    IF sell = None /\ Len(candidates) > 0
    THEN Some(candidates[Len(candidates)])
    ELSE sell

\* Mutant of FallbackSell: a single candidate is left to mrp alone.
FallbackSellNeedsTwo(sell, mrp, candidates) ==
    IF sell = None /\ Len(candidates) > 1
    THEN IF Truthy(mrp) THEN Some(Min(candidates)) ELSE Some(candidates[Len(candidates)])
    ELSE sell

FallbackSell(sell, mrp, candidates) ==
    IF sell = None /\ Len(candidates) > 0
    THEN IF Truthy(mrp) /\ Len(candidates) > 1
         THEN Some(Min(candidates))
         ELSE Some(candidates[Len(candidates)])
    ELSE sell

(***************************************************************************)
(* Name line                                                               *)
(***************************************************************************)
\* Index of the first line boundary of s from i on, Len(s) + 1 when none.
RECURSIVE FirstBreak(_, _)
FirstBreak(s, i) ==
    IF i > Len(s) \/ s[i] \in LineBreaks THEN i ELSE FirstBreak(s, i + 1)

\* Index of the last character of the line boundary that starts at b: a
\* "\r" and the "\n" after it are one boundary.
BreakEnd(s, b) ==
    IF s[b] = "\r" /\ b < Len(s) /\ s[b + 1] = "\n" THEN b + 1 ELSE b

\* str.splitlines(): the lines of s without their boundaries; no empty last
\* line after a final boundary.
RECURSIVE SplitLines(_)
RECURSIVE SplitAt(_, _)
SplitLines(s) ==
    IF Len(s) = 0 THEN <<>> ELSE SplitAt(s, FirstBreak(s, 1))

SplitAt(s, b) ==
    IF b > Len(s) THEN <<s>>
    ELSE <<SubSeq(s, 1, b - 1)>> \o SplitLines(SubSeq(s, BreakEnd(s, b) + 1, Len(s)))

NonBlank(l) == Strip(l) # <<>>

\* [l.strip() for l in kept]
RECURSIVE StripEach(_)
StripEach(kept) ==
    IF Len(kept) = 0 THEN <<>>
    ELSE StripEach(SubSeq(kept, 1, Len(kept) - 1)) \o <<Strip(kept[Len(kept)])>>

\* lines = [l.strip() for l in text.splitlines() if l.strip()]
Lines(t) == StripEach(SelectSeq(SplitLines(t), NonBlank))

NameStopWords == <<<<"m","r","p">>,
                   <<"s","e","l","l">>,
                   <<"p","r","i","c","e">>,
                   <<"r","s">>,
                   <<"i","n","r">>,
                   <<Rupee>>>>

\* any(k in l_low for k in [...])
HasStopWord(l) == \E k \in 1..Len(NameStopWords) : Contains(Lower(l), NameStopWords[k])

\* re.search(r"[a-zA-Z]", l)
HasLetter(l) == \E i \in 1..Len(l) : IsAlpha(l[i])

\* Mutant of FirstLines: every line is examined.
FirstLinesAll(lines) == lines

\* lines[:3]
FirstLines(lines) == SubSeq(lines, 1, IF Len(lines) < 3 THEN Len(lines) ELSE 3)

\* The loop over the early lines from line i on: continue on a stop word,
\* break on the first line with a letter.
RECURSIVE NameFrom(_, _)
NameFrom(early, i) ==
    IF i > Len(early) THEN None
    ELSE IF ~HasStopWord(early[i]) /\ HasLetter(early[i]) THEN Some(Strip(early[i]))
    ELSE NameFrom(early, i + 1)

NameLine(lines) == NameFrom(FirstLines(lines), 1)

(***************************************************************************)
(* parse_price                                                             *)
(***************************************************************************)
\* mrp = number_after([...]) or None
KeywordMrp(t) == OrNone(number_after(Lower(t), MrpKeywords))

\* sell = number_after([...]) or None
KeywordSell(t) == OrNone(number_after(Lower(t), SellKeywords))

\* return OCRResult(raw_text=text.strip(), name=name_line, mrp=mrp, sell_price=sell)
OCRResult(t, mrp, sell) ==
    [raw_text   |-> Strip(t),
     name       |-> NameLine(Lines(t)),
     mrp        |-> mrp,
     sell_price |-> sell]

\* The fallback of sell, with mrp as the fallback of mrp left it.
WithFallbackSell(t, mrp, sell, candidates) ==
    OCRResult(t, mrp, FallbackSell(sell, mrp, candidates))

WithFallback(t, mrp, sell, candidates) ==
    WithFallbackSell(t, FallbackMrp(mrp, candidates), sell, candidates)

parse_price(t) ==
    WithFallback(t, KeywordMrp(t), KeywordSell(t), Candidates(Lower(t)))

(***************************************************************************)
(* The answer of the OCR service: the entries of ParsedResults, each with  *)
(* a ParsedText built from the fragments of one of three vocabularies.     *)
(***************************************************************************)
\* Keywords, separators and numbers of a price line; the long s of the
\* second "sp" and the no-break space are what an OCR engine may return for
\* s and for a space.
PriceFragments == <<<<"M","R","P",":"," ","5","0">>,
                    <<"s","p"," ","9","9">>,
                    <<"m","r","p">>,
                    <<"<U+017F>","p">>,
                    <<"4","5">>,
                    <<"0","0">>,
                    <<".">>,
                    <<"<U+00A0>">>>>

MrpTag == <<"M","R","P",":"," ","1","2","0">>

SellTag == <<"S","e","l","l"," ","P","r","i","c","e"," ","9","0">>

\* The tag of the keyword-priority example and what may surround it.
TagFragments == <<MrpTag,
                  SellTag,
                  <<"4","5">>,
                  <<"s","a","l","e"," ">>,
                  <<"0">>>>

MrpLine == <<"M","R","P"," ",Rupee,"1","5","0">>

LavenderSoap == <<"L","a","v","e","n","d","e","r"," ","S","o","a","p">>

FreshOrganicSoap ==
    <<"F","r","e","s","h"," ","O","r","g","a","n","i","c"," ","S","o","a","p">>

\* Lines of a tag: names, price lines, blanks, with the line ends "\n",
\* "\r\n" and vertical tab.
LineFragments == <<MrpLine \o <<"\n">>,
                   LavenderSoap,
                   <<" ">>,
                   <<"9","9","\r","\n">>,
                   FreshOrganicSoap,
                   <<"P","R","I","C","E"," ","4","5","<U+000B>","R","S"," ","9","9","\n">>>>

Vocabularies == <<PriceFragments, TagFragments, LineFragments>>

NoResult == [raw_text |-> <<>>, name |-> None, mrp |-> None, sell_price |-> None]

\* "\n".join(parts)
RECURSIVE JoinLines(_)
JoinLines(parts) ==
    IF Len(parts) = 0 THEN <<>>
    ELSE IF Len(parts) = 1 THEN parts[1]
    ELSE JoinLines(SubSeq(parts, 1, Len(parts) - 1)) \o <<"\n">> \o parts[Len(parts)]

\* What the answer of the OCR service comes to: a status other than 200,
\* a body resp.json() raises on, a payload with IsErroredOnProcessing set,
\* or none of these.
OcrOutcomes == {"bad_status", "bad_json", "errored", "ok"}

\* The status of the response of extract_tag once the OCR service has
\* answered: 502 for a status other than 200, 500 for an exception, 400 for
\* a payload that is errored or has no ParsedResults, else 200.
ResponseStatus(ocr, parsed_results) ==
    IF ocr = "bad_status" THEN 502
    ELSE IF ocr = "bad_json" THEN 500
    ELSE IF ocr = "ok" /\ Len(parsed_results) > 0 THEN 200
    ELSE 400

Init ==
    /\ vocab \in 1..Len(Vocabularies)
    /\ pieces = 0
    /\ payload = <<>>
    /\ pc = "request"
    /\ status_code = 0
    /\ text = <<>>
    /\ result = NoResult
    /\ again = NoResult

\* The response of an HTTPException.
Raise(status) ==
    /\ pc' = "failed"
    /\ status_code' = status
    /\ UNCHANGED <<text, result>>

\* requests.post: the request is with the OCR service and extract_tag waits
\* in the call, or the call raises and the response has status 500.
Post ==
    \E sent \in BOOLEAN :
        IF sent
        THEN pc' = "waiting" /\ UNCHANGED <<status_code, text, result>>
        ELSE Raise(500)

\* extract_tag up to its first wait.  Without file and url it raises 400;
\* with a file it is suspended in await file.read(); with a url it goes on
\* to requests.post.
StartRequest ==
    /\ pc = "request"
    /\ \E input \in {"none", "file", "url"} :
           IF input = "none" THEN Raise(400)
           ELSE IF input = "file"
           THEN pc' = "reading" /\ UNCHANGED <<status_code, text, result>>
           ELSE Post
    /\ UNCHANGED <<vocab, pieces, payload, again>>

\* extract_tag resumed after await file.read(): requests.post with the file.
PostFile ==
    /\ pc = "reading"
    /\ Post
    /\ UNCHANGED <<vocab, pieces, payload, again>>

\* The OCR service reads one more fragment in the entry it is at, the first
\* entry when there is none yet.
AppendFragment ==
    /\ pc = "waiting"
    /\ pieces < MaxPieces
    /\ \E f \in 1..Len(Vocabularies[vocab]) :
           payload' = IF Len(payload) = 0
                      THEN <<Vocabularies[vocab][f]>>
                      ELSE [payload EXCEPT ![Len(payload)] = @ \o Vocabularies[vocab][f]]
    /\ pieces' = pieces + 1
    /\ UNCHANGED <<vocab, pc, status_code, text, result, again>>

\* The OCR service starts another entry of ParsedResults, its ParsedText
\* empty so far.
AppendEntry ==
    /\ pc = "waiting"
    /\ pieces < MaxPieces
    /\ payload' = Append(payload, <<>>)
    /\ pieces' = pieces + 1
    /\ UNCHANGED <<vocab, pc, status_code, text, result, again>>

\* The response with status 200: text is the ParsedText of the entries
\* joined by "\n", and the body is parse_price(text).
Respond ==
    /\ text' = JoinLines(payload)
    /\ result' = parse_price(JoinLines(payload))
    /\ pc' = "parsed"
    /\ status_code' = 200

\* extract_tag from the return of requests.post on: the status check, the
\* payload, the join, parse_price and the response.
ReceiveAnswer ==
    /\ pc = "waiting"
    /\ \E ocr \in OcrOutcomes :
           IF ResponseStatus(ocr, payload) = 200
           THEN Respond
           ELSE Raise(ResponseStatus(ocr, payload))
    /\ UNCHANGED <<vocab, pieces, payload, again>>

\* parse_price applied to the raw_text of the result of a response.
Reparse ==
    /\ pc = "parsed"
    /\ again' = parse_price(result.raw_text)
    /\ pc' = "reparsed"
    /\ UNCHANGED <<vocab, pieces, payload, status_code, text, result>>

\* One request.  Concurrent requests share no state (payload, text and
\* parsed are locals, parse_price is pure), so each runs as this one does.
Next ==
    \/ StartRequest
    \/ PostFile
    \/ AppendFragment
    \/ AppendEntry
    \/ ReceiveAnswer
    \/ Reparse

Spec == Init /\ [][Next]_vars

(***************************************************************************)
(* Properties                                                              *)
(***************************************************************************)
\* parse_price(text) has just returned result.
Parsed == pc = "parsed"

\* No response carries a result unless ParsedResults had an entry, and the
\* status is 200 exactly for the responses with a result.
TypeOK ==
    /\ pc \in {"request", "reading", "waiting", "parsed", "failed", "reparsed"}
    /\ (pc \in {"parsed", "reparsed"} <=> status_code = 200)
    /\ (pc = "failed" <=> status_code \in {400, 500, 502})
    /\ (pc \in {"request", "reading", "waiting"} <=> status_code = 0)
    /\ (pc \in {"request", "reading"} => Len(payload) = 0)
    /\ (status_code = 200 => Len(payload) > 0 /\ text = JoinLines(payload))

\* The keyword searches: did the pattern match, and where is m.group(1).
MrpCapture == SearchCapture(Lower(text), MrpKeywords)

SellCapture == SearchCapture(Lower(text), SellKeywords)

MrpMatched == MrpCapture > 0

SellMatched == SellCapture > 0

\* The values of the candidate pool.
Pool == Range(Candidates(Lower(text)))

SetMax(S) == CHOOSE x \in S : \A y \in S : y <= x

SetMin(S) == CHOOSE x \in S : \A y \in S : x <= y

\* r is s without a white-space prefix and a white-space suffix, and r
\* neither starts nor ends with white space.
IsTrimOf(r, s) ==
    /\ Len(r) <= Len(s)
    /\ \E a \in 0..(Len(s) - Len(r)) :
           /\ \A i \in 1..a : s[i] \in WhiteSpace
           /\ \A i \in (a + Len(r) + 1)..Len(s) : s[i] \in WhiteSpace
           /\ \A i \in 1..Len(r) : r[i] = s[a + i]
    /\ (Len(r) > 0 => r[1] \notin WhiteSpace /\ r[Len(r)] \notin WhiteSpace)

OptionalPrice(x) == Len(x) = 0 \/ (Len(x) = 1 /\ x[1] \in Nat)

\* C1: parse_price returns a result for every input text (the empty one, the
\* blank ones and those without digits included): raw_text is the text
\* without its leading and trailing white space, and each other field is
\* absent or a value.
C1_Totality ==
    Parsed =>
        /\ IsTrimOf(result.raw_text, text)
        /\ OptionalPrice(result.mrp)
        /\ OptionalPrice(result.sell_price)
        /\ Len(result.name) <= 1

\* A text with white space at both ends around something was parsed.
C1_Witness ==
    /\ Parsed
    /\ Len(text) > 0
    /\ text[1] \in WhiteSpace
    /\ text[Len(text)] \in WhiteSpace
    /\ Len(result.raw_text) > 0

HasBothTags == Contains(text, MrpTag) /\ Contains(text, SellTag)

\* C2 as stated: a text that contains "MRP: 120" and "Sell Price 90" gives
\* mrp = 120.0 and sell_price = 90.0 whatever other numbers it contains.
C2_AnyOtherNumbers ==
    Parsed /\ HasBothTags =>
        result.mrp = Some(12000) /\ result.sell_price = Some(9000)

\* Position i of the text lies in an occurrence of k.
InOccurrence(i, k) ==
    \E j \in 1..i : j + Len(k) > i /\ StartsAt(text, j, k)

NoOtherDigits ==
    \A i \in 1..Len(text) :
        IsDigit(text[i]) => InOccurrence(i, MrpTag) \/ InOccurrence(i, SellTag)

\* C2, amended: a text that contains "MRP: 120" and "Sell Price 90" and no
\* digit outside the occurrences of these two gives mrp = 120.0 and
\* sell_price = 90.0.
C2_NoOtherNumbers ==
    Parsed /\ HasBothTags /\ NoOtherDigits =>
        result.mrp = Some(12000) /\ result.sell_price = Some(9000)

\* Both tags, no other digit, and something else around them.
C2_Witness ==
    /\ Parsed
    /\ HasBothTags
    /\ NoOtherDigits
    /\ Len(text) > Len(MrpTag) + Len(SellTag)
    /\ result.mrp = Some(12000)
    /\ result.sell_price = Some(9000)

\* The starts of the tokens that follow a keyword of kws, its separator and
\* its glyph.
FollowedTokens(kws) ==
    {p \in 1..Len(text) :
        \E i \in 1..Len(text) : \E v \in 1..Len(kws) :
            CaptureAt(Lower(text), i, kws[v]) = p}

LeftmostValue(kws) == Float(Token(Lower(text), SetMin(FollowedTokens(kws))))

\* C3: when an MRP keyword is followed by a token, mrp is the value of the
\* leftmost such token whatever the pool contains, and likewise sell_price
\* with the sell keywords.
C3_KeywordWins ==
    Parsed =>
        /\ (FollowedTokens(MrpKeywords) # {} =>
                result.mrp = Some(LeftmostValue(MrpKeywords)))
        /\ (FollowedTokens(SellKeywords) # {} =>
                result.sell_price = Some(LeftmostValue(SellKeywords)))

\* C4: when neither keyword search matches and the pool is not empty, mrp is
\* the largest and sell_price the smallest value of the pool.
C4_FallbackOrdering ==
    Parsed /\ ~MrpMatched /\ ~SellMatched /\ Pool # {} =>
        /\ result.mrp = Some(SetMax(Pool))
        /\ result.sell_price = Some(SetMin(Pool))

\* The numbers 45 and 99 without a keyword: mrp = 99.0, sell_price = 45.0.
C4_Witness ==
    /\ Parsed
    /\ ~MrpMatched
    /\ ~SellMatched
    /\ Pool = {4500, 9900}
    /\ result.mrp = Some(9900)
    /\ result.sell_price = Some(4500)

\* C5: when both prices are present and the keyword search of at least one
\* of them resolved nothing, sell_price <= mrp.
C5_FallbackNeverAbove ==
    Parsed /\ Len(result.mrp) = 1 /\ Len(result.sell_price) = 1
           /\ (KeywordMrp(text) = None \/ KeywordSell(text) = None)
        => result.sell_price[1] <= result.mrp[1]

\* mrp from its keyword, sell_price from the pool, strictly below.
C5_Witness ==
    /\ Parsed
    /\ KeywordMrp(text) # None
    /\ KeywordSell(text) = None
    /\ Len(result.sell_price) = 1
    /\ result.sell_price[1] < result.mrp[1]

\* The line qualifies as a name: no stop word in its lower-cased form, and
\* a letter.
Qualifies(l) == ~HasStopWord(l) /\ HasLetter(l)

\* C6: name is the first of the first three non-empty trimmed lines that
\* qualifies, and is absent when none of the three does, whatever the later
\* lines are; "MRP <glyph>150" then "Lavender Soap" gives "Lavender Soap".
C6_NameLine ==
    Parsed =>
        LET lines == Lines(text)
            early == 1..(IF Len(lines) < 3 THEN Len(lines) ELSE 3)
        IN  /\ (result.name = None => \A i \in early : ~Qualifies(lines[i]))
            /\ (result.name # None =>
                    \E i \in early :
                        /\ result.name = Some(lines[i])
                        /\ Qualifies(lines[i])
                        /\ \A j \in 1..(i - 1) : ~Qualifies(lines[j]))
            /\ (text = MrpLine \o <<"\n">> \o LavenderSoap =>
                    result.name = Some(LavenderSoap))
            /\ (text = FreshOrganicSoap => result.name = Some(FreshOrganicSoap))

\* No name although the fourth line qualifies.
C6_Witness ==
    /\ Parsed
    /\ result.name = None
    /\ Len(Lines(text)) >= 4
    /\ Qualifies(Lines(text)[4])

\* C7: parsing the raw_text of a result gives the same four fields.
C7_Idempotent == pc = "reparsed" => again = result

\* A text that strip() shortened, with a name and prices, was parsed twice.
C7_Witness ==
    /\ pc = "reparsed"
    /\ result.raw_text # text
    /\ result.name # None
    /\ result.mrp # None
    /\ again = result

\* C8 as stated: with a pool of one value v, mrp = sell_price = v only if
\* neither keyword search matched.
C8_CollapseOnlyWithoutKeyword ==
    Parsed /\ Cardinality(Pool) = 1
           /\ result.mrp = Some(SetMax(Pool)) /\ result.sell_price = Some(SetMax(Pool))
        => ~MrpMatched /\ ~SellMatched

\* C8, amended: with a pool of one value v, mrp = sell_price = v, whether a
\* keyword search matched or not.
C8_CollapseAlways ==
    Parsed /\ Cardinality(Pool) = 1 =>
        \A v \in Pool : result.mrp = Some(v) /\ result.sell_price = Some(v)

\* One value in the pool, captured by a keyword search, in both fields.
C8_Witness ==
    /\ Parsed
    /\ Cardinality(Pool) = 1
    /\ (MrpMatched \/ SellMatched)
    /\ result.mrp = result.sell_price
    /\ result.mrp # None

TwoDigits == \E i \in 1..(Len(text) - 1) : IsDigit(text[i]) /\ IsDigit(text[i + 1])

\* C9: mrp and sell_price are both present or both absent, and present
\* exactly when the text has two digits in a row.
C9_BothOrNeither ==
    Parsed =>
        /\ (result.mrp = None <=> result.sell_price = None)
        /\ (result.mrp # None <=> TwoDigits)

\* "Fresh Organic Soap": no price, and the text as the name.
C9_Witness ==
    /\ Parsed
    /\ text = FreshOrganicSoap
    /\ result.mrp = None
    /\ result.sell_price = None
    /\ result.name = Some(text)

\* C10: when both keyword searches match, the tokens they capture do not
\* overlap.
C10_DistinctTokens ==
    Parsed /\ MrpMatched /\ SellMatched =>
        \/ MrpCapture + NumberLen(Lower(text), MrpCapture) <= SellCapture
        \/ SellCapture + NumberLen(Lower(text), SellCapture) <= MrpCapture

\* Both searches matched, each its own token.
C10_Witness ==
    /\ Parsed
    /\ MrpMatched
    /\ SellMatched
    /\ MrpCapture # SellCapture
    /\ result.mrp # result.sell_price

====
